---- MODULE Spec2Model ----
(***************************************************************************)
(* Model of WithUIDomain-chker.py: the per-domain check pipeline           *)
(* process_domains and the probes it calls (check_http_status,             *)
(* get_name_servers, check_if_parked, get_expiration_date).                *)
(*                                                                         *)
(* Python str values are TLA+ strings; a Python list is a sequence; a      *)
(* Python dict is a function whose DOMAIN is the set of keys present.      *)
(* The network (requests, dns.resolver, whois) is the environment: each    *)
(* call draws its outcome from a small set.                                *)
(***************************************************************************)
EXTENDS Integers, Sequences, FiniteSets, TLC

(***************************************************************************)
(* Bounds and environment sets                                             *)
(***************************************************************************)
\* longest input domain list
MaxDomains == 2

\* the domain names the input list is drawn from
DomainNames == {"a.com", "b.net"}

\* status codes a server may answer with: a success code found in
\* HTTP_STATUS_DESCRIPTIONS and an error-class code missing from it
StatusCodes == {200, 503}

(***************************************************************************)
(* Python str primitives                                                   *)
(***************************************************************************)
\* the characters used, in ascending code point order
Alphabet == "-.0123456789ABCDEFGHIJKLMNOPQRSTUVWXYZabcdefghijklmnopqrstuvwxyz"

CharAt(s, k) == SubSeq(s, k, k)

Chars == { CharAt(Alphabet, k) : k \in 1..Len(Alphabet) }

\* rank of a one-character string in code point order
Ord == [c \in Chars |-> CHOOSE k \in 1..Len(Alphabet) : CharAt(Alphabet, k) = c]

\* str.lower() of one character: 'A'..'Z' are ranks 13..38, 'a'..'z' 39..64
LowerChar == [c \in Chars |-> IF Ord[c] >= 13 /\ Ord[c] <= 38 THEN CharAt(Alphabet, Ord[c] + 26) ELSE c]

RECURSIVE Lower(_)
Lower(s) == IF s = "" THEN "" ELSE LowerChar[CharAt(s, 1)] \o Lower(SubSeq(s, 2, Len(s)))

\* Python's  a < b  on str: lexicographic by code point, a proper prefix is smaller
RECURSIVE StrLess(_, _)
StrLess(a, b) ==
    IF b = "" THEN FALSE
    ELSE IF a = "" THEN TRUE
    ELSE IF CharAt(a, 1) = CharAt(b, 1) THEN StrLess(SubSeq(a, 2, Len(a)), SubSeq(b, 2, Len(b)))
    ELSE Ord[CharAt(a, 1)] < Ord[CharAt(b, 1)]

\* Python's  kw in s  on str
Contains(s, kw) == \E k \in 1..(Len(s) - Len(kw) + 1) : SubSeq(s, k, k + Len(kw) - 1) = kw

RECURSIVE LStrip(_, _)
LStrip(s, c) == IF s # "" /\ CharAt(s, 1) = c THEN LStrip(SubSeq(s, 2, Len(s)), c) ELSE s

RECURSIVE RStrip(_, _)
RStrip(s, c) == IF s # "" /\ CharAt(s, Len(s)) = c THEN RStrip(SubSeq(s, 1, Len(s) - 1), c) ELSE s

\* str.strip(c): removes every leading and every trailing c
Strip(s, c) == RStrip(LStrip(s, c), c)

\* sep.join(list)
RECURSIVE Join(_, _)
Join(sep, l) ==
    IF l = <<>> THEN ""
    ELSE IF Len(l) = 1 THEN l[1]
    ELSE l[1] \o sep \o Join(sep, Tail(l))

\* insert x into the sorted list l behind every element that is not greater
RECURSIVE InsertSorted(_, _)
InsertSorted(x, l) ==
    IF l = <<>> THEN <<x>>
    ELSE IF StrLess(x, l[1]) THEN <<x>> \o l
    ELSE <<l[1]>> \o InsertSorted(x, Tail(l))

\* variant: the list is returned in resolver order
Unsorted(l) == l

\* sorted(list of str): ascending by  <, stable
RECURSIVE Sorted(_)
Sorted(l) == IF l = <<>> THEN <<>> ELSE InsertSorted(l[Len(l)], Sorted(SubSeq(l, 1, Len(l) - 1)))

\* zero-padded decimal, as strftime's %Y (width 4), %m and %d (width 2)
RECURSIVE ZeroPad(_, _)
ZeroPad(s, width) == IF Len(s) >= width THEN s ELSE ZeroPad("0" \o s, width)

(***************************************************************************)
(* Module constants                                                        *)
(***************************************************************************)
PARKING_KEYWORDS ==
    <<"parkingcrew", "sedoparking", "bodis", "afternic", "above", "uniregistry",
      "domaincontrol", "cashparking", "namebright", "namestore">>

HTTP_STATUS_DESCRIPTIONS ==
    (200 :> "OK") @@ (301 :> "Moved Permanently") @@ (302 :> "Found (Redirect)") @@
    (403 :> "Forbidden") @@ (404 :> "Not Found") @@ (500 :> "Internal Server Error")

(***************************************************************************)
(* Python values the WHOIS library may hand back as expiration_date        *)
(***************************************************************************)
NoneValue == [type |-> "NoneType"]

PyStr(s) == [type |-> "str", value |-> s]

PyList(l) == [type |-> "list", items |-> l]

Datetime(y, m, d) == [type |-> "datetime", year |-> y, month |-> m, day |-> d]

Date1 == Datetime(2027, 3, 7)

Date2 == Datetime(2031, 12, 25)

\* what  w.expiration_date  may be when the query succeeds
ExpirationValues ==
    { NoneValue, Date1, PyStr("07-mar-2027"),
      PyList(<<Date1, Date2>>), PyList(<<PyStr("07-mar-2027"), Date1>>), PyList(<<>>) }

\* outcome of  whois.whois(domain) : an exception, or an entry with the field
WhoisOutcomes ==
    { [raised |-> TRUE] } \cup { [raised |-> FALSE, expiration_date |-> v] : v \in ExpirationValues }

\* outcome of  dns.resolver.resolve(domain, 'NS') : an exception, or the
\* targets as text (absolute names, so with the root-label dot), in the
\* order the resolver happens to return them
DnsAnswers ==
    { <<"ns2.x.io.", "ns1.x.io.">>,
      <<"ns1.x.io.", "ns2.x.io.">>,
      <<"ns1.bodis.com.", "NS2.Bodis.com.">>,
      <<"NS2.Bodis.com.", "ns1.bodis.com.">> }

DnsOutcomes == { [raised |-> TRUE] } \cup { [raised |-> FALSE, answers |-> a] : a \in DnsAnswers }

(***************************************************************************)
(* The probes                                                              *)
(***************************************************************************)
\* exp_date.strftime("%Y-%m-%d")
Strftime(d) ==
    ZeroPad(ToString(d.year), 4) \o "-" \o ZeroPad(ToString(d.month), 2) \o "-" \o ZeroPad(ToString(d.day), 2)

\* lines 31-33: the isinstance(exp_date, datetime) test and the two returns
FormatExpiration(exp_date) == IF exp_date.type = "datetime" THEN Strftime(exp_date) ELSE "Unknown"

\* get_expiration_date, given what whois.whois(domain) did.  exp_date[0] on
\* an empty list raises IndexError inside the try block.
get_expiration_date(o) ==
    IF o.raised THEN "Lookup Failed"
    ELSE LET exp_date == o.expiration_date IN
         IF exp_date.type = "list"
         THEN IF exp_date.items = <<>> THEN "Lookup Failed" ELSE FormatExpiration(exp_date.items[1])
         ELSE FormatExpiration(exp_date)

\* HTTP_STATUS_DESCRIPTIONS.get(status, "Other")
Description(status) ==
    IF status \in DOMAIN HTTP_STATUS_DESCRIPTIONS THEN HTTP_STATUS_DESCRIPTIONS[status] ELSE "Other"

\* f"{status} - {description}"
StatusLine(status) == ToString(status) \o " - " \o Description(status)

\* urls = [f"http://{domain}", f"https://{domain}"]
Urls(domain) == <<"http://" \o domain, "https://" \o domain>>

\* [str(r.target).strip('.') for r in answers]
StripTargets(answers) == [k \in 1..Len(answers) |-> Strip(answers[k], ".")]

\* get_name_servers, given what dns.resolver.resolve did
get_name_servers(o) == IF o.raised THEN <<>> ELSE Sorted(StripTargets(o.answers))

\* any(any(keyword in ns.lower() for keyword in PARKING_KEYWORDS) for ns in ns_records)
check_if_parked(ns) ==
    \E n \in 1..Len(ns) :
        LET lowered == Lower(ns[n]) IN
        \E k \in 1..Len(PARKING_KEYWORDS) : Contains(lowered, PARKING_KEYWORDS[k])

\* d[key] = value  on a dict
DictSet(d, key, value) == [k \in (DOMAIN d) \cup {key} |-> IF k = key THEN value ELSE d[k]]

(***************************************************************************)
(* State                                                                   *)
(***************************************************************************)
VARIABLES
    domains,       \* argument: the input list
    check_expiry,  \* argument
    check_ns,      \* argument
    check_park,    \* argument
    check_http,    \* argument
    results,       \* the list being built
    i,             \* 1-based position of  domain  in  domains  (0 before the loop)
    pc,            \* the statement process_domains is at
    result,        \* the dict of the current iteration
    ns_records,    \* local of process_domains
    attempts,      \* history: the requests.get calls of check_http_status, kept until line 74
    answers,       \* history: outcome of the resolver call, kept until line 81
    w,             \* history: outcome of the whois call, kept until line 93
    calls,         \* history: every probe invocation so far, in order
    ns_from        \* history: the iteration that assigned ns_records

vars == <<domains, check_expiry, check_ns, check_park, check_http, results, i, pc, result,
          ns_records, attempts, answers, w, calls, ns_from>>

args == <<domains, check_expiry, check_ns, check_park, check_http>>

\* all lists over S of length at most n
RECURSIVE SeqsUpTo(_, _)
SeqsUpTo(S, n) ==
    IF n = 0 THEN { <<>> }
    ELSE LET shorter == SeqsUpTo(S, n - 1) IN
         shorter \cup { Append(l, x) : l \in { s \in shorter : Len(s) = n - 1 }, x \in S }

Init ==
    /\ domains \in SeqsUpTo(DomainNames, MaxDomains)
    /\ check_expiry \in BOOLEAN
    /\ check_ns \in BOOLEAN
    /\ check_park \in BOOLEAN
    /\ check_http \in BOOLEAN
    /\ results = <<>>
    /\ i = 0
    /\ pc = "for"
    /\ result = <<>>
    /\ ns_records = <<>>
    /\ attempts = <<>>
    /\ answers = <<>>
    /\ w = <<>>
    /\ calls = <<>>
    /\ ns_from = 0

Call(probe) == [probe |-> probe, domain |-> i]

(***************************************************************************)
(* process_domains, statement by statement                                 *)
(***************************************************************************)
\* lines 66-67: next domain, fresh dict
ForNext ==
    /\ pc = "for"
    /\ i < Len(domains)
    /\ i' = i + 1
    /\ result' = ("Domain" :> domains[i + 1])
    /\ pc' = "http"
    /\ UNCHANGED <<args, results, ns_records, attempts, answers, w, calls, ns_from>>

\* line 95: the list is exhausted, return results
Return ==
    /\ pc = "for"
    /\ i = Len(domains)
    /\ pc' = "done"
    /\ UNCHANGED <<args, results, i, result, ns_records, attempts, answers, w, calls, ns_from>>

\* lines 69-70, 39: call check_http_status, build urls, enter its loop
HttpCall ==
    /\ pc = "http"
    /\ check_http
    /\ attempts' = <<>>
    /\ calls' = Append(calls, Call("http"))
    /\ pc' = "get"
    /\ UNCHANGED <<args, results, i, result, ns_records, answers, w, ns_from>>

\* lines 71-72
HttpSkipped ==
    /\ pc = "http"
    /\ ~check_http
    /\ result' = DictSet(result, "HTTP Status", "Skipped")
    /\ pc' = "ns"
    /\ UNCHANGED <<args, results, i, ns_records, attempts, answers, w, calls, ns_from>>

\* for url in urls: the url of the next attempt
NextUrl == Urls(domains[i])[Len(attempts) + 1]

\* variant: an error-class answer on the first url is treated like a failure
GetResponseFallbackOnError ==
    /\ pc = "get"
    /\ Len(attempts) < Len(Urls(domains[i]))
    /\ \E status \in StatusCodes :
         /\ attempts' = Append(attempts, [url |-> NextUrl, outcome |-> "response", status |-> status])
         /\ IF status >= 400 /\ Len(attempts) = 0
            THEN UNCHANGED <<result, pc>>
            ELSE result' = DictSet(result, "HTTP Status", StatusLine(status)) /\ pc' = "ns"
    /\ UNCHANGED <<args, results, i, ns_records, answers, w, calls, ns_from>>

\* lines 40-45, 70: requests.get answers; return the status line
GetResponse ==
    /\ pc = "get"
    /\ Len(attempts) < Len(Urls(domains[i]))
    /\ \E status \in StatusCodes :
         /\ attempts' = Append(attempts, [url |-> NextUrl, outcome |-> "response", status |-> status])
         /\ result' = DictSet(result, "HTTP Status", StatusLine(status))
    /\ pc' = "ns"
    /\ UNCHANGED <<args, results, i, ns_records, answers, w, calls, ns_from>>

\* variant: the first network error ends the probe
GetRequestExceptionGiveUp ==
    /\ pc = "get"
    /\ Len(attempts) < Len(Urls(domains[i]))
    /\ attempts' = Append(attempts, [url |-> NextUrl, outcome |-> "RequestException", status |-> 0])
    /\ result' = DictSet(result, "HTTP Status", "No Response")
    /\ pc' = "ns"
    /\ UNCHANGED <<args, results, i, ns_records, answers, w, calls, ns_from>>

\* lines 40-42, 46-47: requests.get raises a requests.RequestException; continue
GetRequestException ==
    /\ pc = "get"
    /\ Len(attempts) < Len(Urls(domains[i]))
    /\ attempts' = Append(attempts, [url |-> NextUrl, outcome |-> "RequestException", status |-> 0])
    /\ UNCHANGED <<args, results, i, pc, result, ns_records, answers, w, calls, ns_from>>

\* lines 40-42: requests.get raises an exception that is not a
\* requests.RequestException; no handler in check_http_status or in
\* process_domains catches it
GetOtherException ==
    /\ pc = "get"
    /\ Len(attempts) < Len(Urls(domains[i]))
    /\ attempts' = Append(attempts, [url |-> NextUrl, outcome |-> "Exception", status |-> 0])
    /\ pc' = "raised"
    /\ UNCHANGED <<args, results, i, result, ns_records, answers, w, calls, ns_from>>

\* lines 48, 70: urls exhausted
NoResponse ==
    /\ pc = "get"
    /\ Len(attempts) = Len(Urls(domains[i]))
    /\ result' = DictSet(result, "HTTP Status", "No Response")
    /\ pc' = "ns"
    /\ UNCHANGED <<args, results, i, ns_records, attempts, answers, w, calls, ns_from>>

\* variant: the probe is called once for the test and once for the value
NsLookupTwice ==
    /\ pc = "ns"
    /\ check_ns
    /\ \E o \in DnsOutcomes :
         LET ns == get_name_servers(o) IN
         /\ answers' = <<o>>
         /\ ns_records' = ns
         /\ result' = DictSet(result, "Name Servers", IF ns # <<>> THEN Join(", ", ns) ELSE "N/A")
    /\ calls' = calls \o <<Call("ns"), Call("ns")>>
    /\ ns_from' = i
    /\ attempts' = <<>>
    /\ pc' = "park"
    /\ UNCHANGED <<args, results, i, w>>

\* lines 74-76
NsLookup ==
    /\ pc = "ns"
    /\ check_ns
    /\ \E o \in DnsOutcomes :
         LET ns == get_name_servers(o) IN
         /\ answers' = <<o>>
         /\ ns_records' = ns
         /\ result' = DictSet(result, "Name Servers", IF ns # <<>> THEN Join(", ", ns) ELSE "N/A")
    /\ calls' = Append(calls, Call("ns"))
    /\ ns_from' = i
    /\ attempts' = <<>>
    /\ pc' = "park"
    /\ UNCHANGED <<args, results, i, w>>

\* lines 77-79
NsSkipped ==
    /\ pc = "ns"
    /\ ~check_ns
    /\ ns_records' = <<>>
    /\ result' = DictSet(result, "Name Servers", "Skipped")
    /\ ns_from' = i
    /\ attempts' = <<>>
    /\ pc' = "park"
    /\ UNCHANGED <<args, results, i, answers, w, calls>>

\* lines 81-82
ParkClassify ==
    /\ pc = "park"
    /\ check_park /\ ns_records # <<>>
    /\ result' = DictSet(result, "Possibly Parked", IF check_if_parked(ns_records) THEN "Yes" ELSE "No")
    /\ calls' = Append(calls, Call("park"))
    /\ answers' = <<>>
    /\ pc' = "expiry"
    /\ UNCHANGED <<args, results, i, ns_records, attempts, w, ns_from>>

\* variant: no distinct not-applicable state
ParkNotApplicableAsSkipped ==
    /\ pc = "park"
    /\ ~(check_park /\ ns_records # <<>>)
    /\ check_park
    /\ result' = DictSet(result, "Possibly Parked", "Skipped")
    /\ answers' = <<>>
    /\ pc' = "expiry"
    /\ UNCHANGED <<args, results, i, ns_records, attempts, w, calls, ns_from>>

\* lines 83-84
ParkNotApplicable ==
    /\ pc = "park"
    /\ ~(check_park /\ ns_records # <<>>)
    /\ check_park
    /\ result' = DictSet(result, "Possibly Parked", "N/A")
    /\ answers' = <<>>
    /\ pc' = "expiry"
    /\ UNCHANGED <<args, results, i, ns_records, attempts, w, calls, ns_from>>

\* variant: the final else branch is missing
ParkSkippedNoKey ==
    /\ pc = "park"
    /\ ~(check_park /\ ns_records # <<>>)
    /\ ~check_park
    /\ answers' = <<>>
    /\ pc' = "expiry"
    /\ UNCHANGED <<args, results, i, result, ns_records, attempts, w, calls, ns_from>>

\* lines 85-86
ParkSkipped ==
    /\ pc = "park"
    /\ ~(check_park /\ ns_records # <<>>)
    /\ ~check_park
    /\ result' = DictSet(result, "Possibly Parked", "Skipped")
    /\ answers' = <<>>
    /\ pc' = "expiry"
    /\ UNCHANGED <<args, results, i, ns_records, attempts, w, calls, ns_from>>

\* lines 88-89
ExpiryLookup ==
    /\ pc = "expiry"
    /\ check_expiry
    /\ \E o \in WhoisOutcomes :
         /\ w' = <<o>>
         /\ result' = DictSet(result, "Expiration Date", get_expiration_date(o))
    /\ calls' = Append(calls, Call("whois"))
    /\ pc' = "append"
    /\ UNCHANGED <<args, results, i, ns_records, attempts, answers, ns_from>>

\* variant: the skipped expiry is reported like missing data
ExpirySkippedAsUnknown ==
    /\ pc = "expiry"
    /\ ~check_expiry
    /\ result' = DictSet(result, "Expiration Date", "Unknown")
    /\ pc' = "append"
    /\ UNCHANGED <<args, results, i, ns_records, attempts, answers, w, calls, ns_from>>

\* lines 90-91
ExpirySkipped ==
    /\ pc = "expiry"
    /\ ~check_expiry
    /\ result' = DictSet(result, "Expiration Date", "Skipped")
    /\ pc' = "append"
    /\ UNCHANGED <<args, results, i, ns_records, attempts, answers, w, calls, ns_from>>

\* variant: results keyed by domain, a repeated domain replaces its record
AppendResultByDomain ==
    /\ pc = "append"
    /\ results' = IF \E k \in 1..Len(results) : results[k]["Domain"] = result["Domain"]
                  THEN [k \in 1..Len(results) |->
                            IF results[k]["Domain"] = result["Domain"] THEN result ELSE results[k]]
                  ELSE Append(results, result)
    /\ w' = <<>>
    /\ pc' = "for"
    /\ UNCHANGED <<args, i, result, ns_records, attempts, answers, calls, ns_from>>

\* line 93
AppendResult ==
    /\ pc = "append"
    /\ results' = Append(results, result)
    /\ w' = <<>>
    /\ pc' = "for"
    /\ UNCHANGED <<args, i, result, ns_records, attempts, answers, calls, ns_from>>

Next ==
    \/ ForNext
    \/ Return
    \/ HttpCall
    \/ HttpSkipped
    \/ GetResponse
    \/ GetRequestException
    \/ GetOtherException
    \/ NoResponse
    \/ NsLookup
    \/ NsSkipped
    \/ ParkClassify
    \/ ParkNotApplicable
    \/ ParkSkipped
    \/ ExpiryLookup
    \/ ExpirySkipped
    \/ AppendResult

Spec == Init /\ [][Next]_vars

(***************************************************************************)
(* Properties                                                              *)
(***************************************************************************)
Keys == {"Domain", "HTTP Status", "Name Servers", "Possibly Parked", "Expiration Date"}

\* the dicts that are complete: those appended, and the one about to be
Complete(P(_)) == (\A k \in 1..Len(results) : P(results[k])) /\ (pc = "append" => P(result))

HasAllFields(r) == DOMAIN r = Keys /\ \A f \in Keys : r[f] \in STRING

\* C1: every record produced by process_domains has exactly the five fixed
\* keys, none absent, and every one of them holds a string (never None),
\* whatever the toggles and whatever the probes did.
C1_AllFieldsPresent == Complete(HasAllFields)

\* C1 witness: a record of a run with every check enabled in which every
\* probe failed or came back empty
C1_Witness ==
    /\ check_http /\ check_ns /\ check_park /\ check_expiry
    /\ \E k \in 1..Len(results) :
         /\ results[k]["HTTP Status"] = "No Response"
         /\ results[k]["Name Servers"] = "N/A"
         /\ results[k]["Expiration Date"] = "Lookup Failed"

ParkedAgrees(r) ==
    /\ r["Possibly Parked"] \in {"Skipped", "N/A", "Yes", "No"}
    /\ (r["Possibly Parked"] = "Skipped") <=> ~check_park
    /\ check_park => ((r["Possibly Parked"] = "N/A") <=> (r["Name Servers"] \in {"Skipped", "N/A"}))

\* C2: the Possibly Parked field is "Skipped" exactly when the parking check
\* is disabled; otherwise "N/A" exactly when there is no name-server data
\* (name-server check disabled, or the lookup gave the empty list);
\* otherwise "Yes" if the classifier matches the list and "No" if not.  With
\* check_ns false and check_park true it is "N/A" and Name Servers is
\* "Skipped".
C2_ParkedField ==
    /\ pc = "expiry" =>
         LET parked == result["Possibly Parked"]
             noData == ~check_ns \/ ns_records = <<>>
         IN  /\ (parked = "Skipped") <=> ~check_park
             /\ check_park => ((parked = "N/A") <=> noData)
             /\ (check_park /\ ~noData) =>
                    parked = (IF check_if_parked(ns_records) THEN "Yes" ELSE "No")
             /\ (~check_ns /\ check_park) =>
                    (parked = "N/A" /\ result["Name Servers"] = "Skipped")
    /\ Complete(ParkedAgrees)

\* C2 witness: parking enabled without the name-server check, record complete
C2_Witness ==
    /\ ~check_ns /\ check_park
    /\ pc = "append"
    /\ result["Possibly Parked"] = "N/A"
    /\ result["Name Servers"] = "Skipped"

SkippedWhereDisabled(r) ==
    /\ ~check_http => r["HTTP Status"] = "Skipped"
    /\ ~check_ns => r["Name Servers"] = "Skipped"
    /\ ~check_park => r["Possibly Parked"] = "Skipped"
    /\ ~check_expiry => r["Expiration Date"] = "Skipped"

\* C3: a disabled check leaves the literal "Skipped" in its field of every
\* record, whatever the other toggles and the probe outcomes; with all four
\* disabled every field but Domain is "Skipped" and Domain is the input
\* domain.
C3_DisabledIsSkipped ==
    /\ Complete(SkippedWhereDisabled)
    /\ (~check_http /\ ~check_ns /\ ~check_park /\ ~check_expiry) =>
         \A k \in 1..Len(results) :
             results[k] = [f \in Keys |-> IF f = "Domain" THEN domains[k] ELSE "Skipped"]

\* C3 witness: all four checks disabled and two records returned
C3_Witness ==
    /\ ~check_http /\ ~check_ns /\ ~check_park /\ ~check_expiry
    /\ pc = "done"
    /\ Len(results) = 2

\* C4: when process_domains returns, results has one record per input
\* domain, the record at position k carries the k-th input domain, and
\* while it runs the records so far are those of the domains so far: none
\* dropped, duplicated or reordered, duplicates in the input included.
C4_OneRecordPerDomainInOrder ==
    /\ Len(results) <= Len(domains)
    /\ \A k \in 1..Len(results) : results[k]["Domain"] = domains[k]
    /\ pc = "done" => Len(results) = Len(domains)

\* C4 witness: a returned run over a list that names the same domain twice,
\* with two different records for it
C4_Witness ==
    /\ pc = "done"
    /\ Len(domains) = 2
    /\ domains[1] = domains[2]
    /\ Len(results) = 2
    /\ results[1] # results[2]

\* C5: no failure raised while checking one domain aborts the run:
\* process_domains never raises, whatever kind of exception a probe's
\* network call raises.
C5_NeverRaises == pc # "raised"

Rank(probe) == CASE probe = "http" -> 1 [] probe = "ns" -> 2 [] probe = "park" -> 3 [] probe = "whois" -> 4

Enabled(probe) ==
    CASE probe = "http" -> check_http
      [] probe = "ns" -> check_ns
      [] probe = "park" -> check_park
      [] probe = "whois" -> check_expiry

Invoked(probe, k) == \E n \in 1..Len(calls) : calls[n].domain = k /\ calls[n].probe = probe

\* C6: for every domain whose record is complete each enabled probe (HTTP,
\* name-server lookup, WHOIS) was invoked exactly once and each disabled one
\* never; invocations happen domain after domain and, within a domain, in
\* the order HTTP, name servers, parking classification, expiry; and the
\* parking step reads the ns_records assigned in the same iteration.
\* (The log is strictly increasing in (domain, step), so no invocation
\* repeats: invoked at least once is invoked exactly once.)
C6_ProbeOrder ==
    /\ \A k \in 1..Len(results) : \A p \in {"http", "ns", "whois"} : Enabled(p) => Invoked(p, k)
    /\ \A n \in 1..Len(calls) : Enabled(calls[n].probe) /\ calls[n].domain \in 1..i
    /\ \A a \in 1..(Len(calls) - 1) :
         \/ calls[a].domain < calls[a + 1].domain
         \/ /\ calls[a].domain = calls[a + 1].domain
            /\ Rank(calls[a].probe) < Rank(calls[a + 1].probe)
    /\ pc = "park" => ns_from = i

\* C6 witness: a returned run over two domains in which all four steps ran
\* for both
C6_Witness ==
    /\ pc = "done"
    /\ Len(calls) = 8
    /\ calls[4] = [probe |-> "whois", domain |-> 1]
    /\ calls[7] = [probe |-> "park", domain |-> 2]

\* the status lines the spec's table gives for the modelled codes
ExpectedLine(status) ==
    CASE status = 200 -> "200 - OK" [] status = 503 -> "503 - Other"

IsNetworkError(a) == a.outcome = "RequestException"

\* C7: check_http_status requests http://<domain> first and https://<domain>
\* second, each at most once; the first attempt that gets any response
\* decides the result "<code> - <description>" and ends the probe; https is
\* tried only after http raised a network error; the result is "No Response"
\* exactly when both attempts raised network errors.
C7_HttpFallback ==
    (check_http /\ pc \in {"get", "ns", "raised"}) =>
        /\ Len(attempts) <= 2
        /\ Len(attempts) >= 1 => attempts[1].url = "http://" \o domains[i]
        /\ Len(attempts) = 2 =>
             (attempts[2].url = "https://" \o domains[i] /\ IsNetworkError(attempts[1]))
        /\ pc = "get" => \A n \in 1..Len(attempts) : IsNetworkError(attempts[n])
        /\ pc = "ns" =>
             LET last == attempts[Len(attempts)] IN
             /\ Len(attempts) >= 1
             /\ last.outcome = "response" => result["HTTP Status"] = ExpectedLine(last.status)
             /\ (result["HTTP Status"] = "No Response") <=>
                    (Len(attempts) = 2 /\ IsNetworkError(attempts[1]) /\ IsNetworkError(attempts[2]))

\* C7 witness: http raised a network error and https answered 503
C7_Witness ==
    /\ pc = "ns"
    /\ Len(attempts) = 2
    /\ attempts[1].outcome = "RequestException"
    /\ attempts[2].outcome = "response"
    /\ attempts[2].status = 503
    /\ result["HTTP Status"] = "503 - Other"

IsDate(v) == v.type = "datetime"

\* C8: get_expiration_date returns "Lookup Failed" only when the WHOIS query
\* itself fails; when the query succeeds and the field is absent, not
\* date-typed, a list whose first element is not a date, or an empty list it
\* returns "Unknown"; for a date, or a list starting with a date, it returns
\* the ISO date of that date or first element.
C8_ExpirySentinels ==
    (check_expiry /\ pc = "append") =>
        LET o == w[1]
            value == result["Expiration Date"]
        IN  /\ value = "Lookup Failed" => o.raised
            /\ ~o.raised =>
                 LET e == o.expiration_date
                     first == IF e.type = "list" /\ e.items # <<>> THEN e.items[1] ELSE e
                 IN  /\ IsDate(first) => value \in {"2027-03-07", "2031-12-25"}
                     /\ (e = Date1 \/ e = PyList(<<Date1, Date2>>)) => value = "2027-03-07"
                     /\ ~IsDate(first) => value = "Unknown"

\* C9: https://<domain> is attempted whenever the http://<domain> attempt
\* fails with a network error or answers with a status of 400 or above; an
\* error-class answer on http never decides the result by itself.
C9_HttpsAfterErrorStatus ==
    (check_http /\ pc = "ns") =>
        ((IsNetworkError(attempts[1]) \/ (attempts[1].outcome = "response" /\ attempts[1].status >= 400))
            => Len(attempts) = 2)

\* C9 amended: https://<domain> is attempted exactly when the http://<domain>
\* attempt raised a network error; any answer on http, error-class included,
\* decides the result without an https attempt.
C9_HttpsOnlyAfterNetworkError ==
    (check_http /\ pc = "ns") =>
        /\ (Len(attempts) = 2) <=> IsNetworkError(attempts[1])
        /\ attempts[1].outcome = "response" =>
             (Len(attempts) = 1 /\ result["HTTP Status"] = ExpectedLine(attempts[1].status))

\* C9 witness: http answered 503 and that alone decided the result
C9_Witness ==
    /\ check_http /\ pc = "ns"
    /\ Len(attempts) = 1
    /\ attempts[1].url = "http://" \o domains[i]
    /\ attempts[1].outcome = "response"
    /\ attempts[1].status = 503
    /\ result["HTTP Status"] = "503 - Other"

\* a target as text without its root-label dot
WithoutRootDot(s) == IF s # "" /\ CharAt(s, Len(s)) = "." THEN SubSeq(s, 1, Len(s) - 1) ELSE s

SameRecordSet(a, b) == { a[k] : k \in 1..Len(a) } = { b[k] : k \in 1..Len(b) }

\* C10: get_name_servers returns the empty list when the resolution fails;
\* otherwise the resolved targets without trailing dot, ascending in
\* case-sensitive code point order, and the same list and Name Servers field
\* (hence the same parking verdict, a function of the list) for every order
\* in which the resolver returns the same record set.
C10_NameServersSorted ==
    (check_ns /\ pc = "park") =>
        LET o == answers[1] IN
        /\ o.raised => (ns_records = <<>> /\ result["Name Servers"] = "N/A")
        /\ ~o.raised =>
             /\ Len(ns_records) = Len(o.answers)
             /\ { ns_records[k] : k \in 1..Len(ns_records) }
                    = { WithoutRootDot(o.answers[k]) : k \in 1..Len(o.answers) }
             /\ \A k \in 1..Len(ns_records) : CharAt(ns_records[k], Len(ns_records[k])) # "."
             /\ \A k \in 1..(Len(ns_records) - 1) : ~StrLess(ns_records[k + 1], ns_records[k])
             /\ \A o2 \in DnsOutcomes :
                  (~o2.raised /\ SameRecordSet(o2.answers, o.answers)) =>
                      /\ get_name_servers(o2) = ns_records
                      /\ Join(", ", get_name_servers(o2)) = result["Name Servers"]

\* C10 witness: the resolver answered lower case first, the list returned
\* has the upper-case name first and no trailing dots
C10_Witness ==
    /\ check_ns /\ pc = "park"
    /\ answers = << [raised |-> FALSE, answers |-> <<"ns1.bodis.com.", "NS2.Bodis.com.">>] >>
    /\ ns_records = <<"NS2.Bodis.com", "ns1.bodis.com">>
    /\ result["Name Servers"] = "NS2.Bodis.com, ns1.bodis.com"

====
